---- MODULE Spec2Model ----
(***************************************************************************)
(* drawMaps.js: hand-drawing of polygons ("maps") over an element.         *)
(*                                                                         *)
(* One widget per matched element.  A widget is the record of the fields   *)
(* the constructor sets (svg, polygon, isDrawing, coords); its svg field   *)
(* holds the children of the widget's <svg> overlay, in document order.    *)
(* The click and mousemove listeners are bound to the element's parent     *)
(* node, so an event is delivered to a container and handled by every      *)
(* widget listening there.                                                 *)
(*                                                                         *)
(* Lengths: event.pageX/pageY, window.pageXOffset/pageYOffset and          *)
(* clientLeft/clientTop are whole pixels; getBoundingClientRect() may      *)
(* return fractions, so rect.left/rect.top are kept in HALF pixels and     *)
(* Math.round is modelled on half pixels.                                  *)
(***************************************************************************)
EXTENDS Integers, Sequences, FiniteSets, TLC

VARIABLES
    widgets,     \* element -> the drawMaps instance created for it
    parentNode,  \* element -> the container its listeners are bound to
    rect,        \* element -> getBoundingClientRect() top/left, in half pixels
    pageOffset,  \* window.pageXOffset / window.pageYOffset, in pixels
    docElement,  \* document.documentElement clientLeft / clientTop, in pixels
    last,        \* the event handled last
    pre,         \* element -> isDrawing, coords, polygon at entry of the handler run last
    log,         \* the click events delivered so far, while the log has room
    logCap,      \* room of the log
    create       \* the call of the exposed create function: the elements matched,
                 \* the loop index, the options, and whether a constructor threw

vars ==
    <<widgets, parentNode, rect, pageOffset, docElement, last, pre, log, logCap, create>>

-----------------------------------------------------------------------------
(* Bounds of the model *)

\* plain clicks are offered while coords is shorter than this
MaxVertices == 2

\* clicks that would inject a polygon are offered while the svg holds fewer
MaxShapes == 2

\* clicks made in the specifications that log the clicks
MaxClicks == 4

\* pointer positions (pageX, pageY) of the plain clicks, of the clicks with a
\* modifier held and of the moves Next offers
ClickPoints == { <<30, 25>>, <<12, 14>> }

ModifierClickPoints == { <<30, 25>> }

MovePoints == { <<18, 21>> }

\* the page geometry: (rect.left, rect.top) of the element in half pixels,
\* (clientLeft, clientTop) of the root element, and the page scroll
Geometry ==
    [ rect |-> <<27, 29>>, root |-> <<2, 1>>, scroll |-> <<1, 5>> ]

-----------------------------------------------------------------------------
(* drawMaps.prototype.defaults: the modifier keys of the three actions *)
defaults ==
    [ wrapImages |-> TRUE,
      regretKey  |-> "metaKey",
      closeKey   |-> "shiftKey",
      resetKey   |-> "altKey" ]

\* extend: the keys of the later object override those of the earlier
extend(out, obj) ==
    [ key \in DOMAIN out \cup DOMAIN obj |->
        IF key \in DOMAIN obj THEN obj[key] ELSE out[key] ]

\* this.options = this.extend({}, this.defaults, options), create() called
\* without options
options == defaults

\* a <polygon> element: its points attribute (absent until first set)
NewPolygon == [ hasPoints |-> FALSE, points |-> <<>> ]

\* the fields the constructor sets; calls is the trace of the methods the
\* handler running on the widget has called
NewWidget ==
    [ svg       |-> <<>>,
      polygon   |-> 0,
      isDrawing |-> FALSE,
      coords    |-> <<>>,
      calls     |-> <<>> ]

Called(self, name) == [self EXCEPT !.calls = Append(@, name)]

Front(s) == SubSeq(s, 1, Len(s) - 1)

-----------------------------------------------------------------------------
(* Coordinate mapping *)

\* Math.round of h/2: the nearest integer, halves rounded toward +infinity
MathRound(h) == (h + 1) \div 2

\* mutant: the page scroll is not added
getElementOffset_noScroll(r, scroll, root) ==
    [ top  |-> r.top  - 2 * root.clientTop,
      left |-> r.left - 2 * root.clientLeft ]

\* getElementOffset, in half pixels
getElementOffset(r, scroll, root) ==
    [ top  |-> r.top  + 2 * scroll.y - 2 * root.clientTop,
      left |-> r.left + 2 * scroll.x - 2 * root.clientLeft ]

\* mutant: the page position, the element's offset not subtracted
getMousePosition_page(event, r, scroll, root) ==
    [ x |-> MathRound(2 * event.pageX), y |-> MathRound(2 * event.pageY) ]

getMousePosition(event, r, scroll, root) ==
    LET offset == getElementOffset(r, scroll, root)
    IN  [ x |-> MathRound(2 * event.pageX - offset.left),
          y |-> MathRound(2 * event.pageY - offset.top) ]

-----------------------------------------------------------------------------
(* The points attribute.  [this.coords, x, y].join(',') converts coords    *)
(* with Array.prototype.toString, which joins the pairs and their numbers  *)
(* with commas; an empty array converts to the empty string.  The value is *)
(* modelled as its comma-separated fields: <<n>> for a number, <<>> for an *)
(* empty field.                                                            *)

RECURSIVE ArrayToFields(_)
ArrayToFields(arr) ==
    IF arr = <<>> THEN <<>>
    ELSE << <<arr[1][1]>>, <<arr[1][2]>> >> \o ArrayToFields(Tail(arr))

JoinPoints(arr, x, y) ==
    (IF arr = <<>> THEN << <<>> >> ELSE ArrayToFields(arr)) \o << <<x>>, <<y>> >>

\* the point list a points value stands for: its numbers taken in pairs; a
\* value with an empty field or an odd number of fields is no point list
RECURSIVE FieldsToPoints(_)
FieldsToPoints(fields) ==
    IF Len(fields) < 2 THEN <<>>
    ELSE << <<fields[1][1], fields[2][1]>> >> \o FieldsToPoints(Tail(Tail(fields)))

WellFormed(fields) ==
    /\ Len(fields) % 2 = 0
    /\ \A i \in 1..Len(fields) : Len(fields[i]) = 1

\* the points a <polygon> element shows
ShapePoints(shape) ==
    IF shape.hasPoints /\ WellFormed(shape.points)
    THEN FieldsToPoints(shape.points)
    ELSE <<>>

-----------------------------------------------------------------------------
(* Methods of drawMaps.prototype, as functions of the widget *)

injectPolygon(self) ==
    Called([self EXCEPT !.svg     = Append(@, NewPolygon),
                        !.polygon = Len(self.svg) + 1],
           "injectPolygon")

\* mutant: the preview point is pushed on coords as well
renderNewPoint_commits(self, x, y) ==
    IF self.polygon \in 1..Len(self.svg)
    THEN Called([self EXCEPT !.svg[self.polygon] =
                     [ hasPoints |-> TRUE,
                       points    |-> JoinPoints(self.coords, x, y) ],
                             !.coords = Append(@, <<x, y>>)],
                "renderNewPoint")
    ELSE Called(self, "renderNewPoint")

\* mutant: the first polygon of the svg is written, not this.polygon
renderNewPoint_first(self, x, y) ==
    IF self.svg # <<>>
    THEN Called([self EXCEPT !.svg[1] =
                     [ hasPoints |-> TRUE,
                       points    |-> JoinPoints(self.coords, x, y) ]],
                "renderNewPoint")
    ELSE Called(self, "renderNewPoint")

\* this.polygon.setAttribute('points', ...): throws on a null polygon, and
\* writes to a detached element when the polygon is no child of the svg
renderNewPoint(self, x, y) ==
    IF self.polygon \in 1..Len(self.svg)
    THEN Called([self EXCEPT !.svg[self.polygon] =
                     [ hasPoints |-> TRUE,
                       points    |-> JoinPoints(self.coords, x, y) ]],
                "renderNewPoint")
    ELSE Called(self, "renderNewPoint")

\* mutant: an undo that finds nothing to remove ends the drawing
regretPoint_deactivates(self) ==
    Called(IF Len(self.coords) > 0
           THEN [self EXCEPT !.coords = Front(@)]
           ELSE [self EXCEPT !.isDrawing = FALSE],
           "regretPoint")

\* mutant: shift() for pop(), the oldest point is removed
regretPoint_shift(self) ==
    Called(IF Len(self.coords) > 0
           THEN [self EXCEPT !.coords = Tail(@)]
           ELSE self,
           "regretPoint")

\* mutant: removing the last vertex left ends the drawing
regretPoint_endsWhenDrained(self) ==
    Called(IF Len(self.coords) > 0
           THEN [self EXCEPT !.coords    = Front(@),
                             !.isDrawing = Len(self.coords) > 1]
           ELSE self,
           "regretPoint")

regretPoint(self) ==
    Called(IF Len(self.coords) > 0
           THEN [self EXCEPT !.coords = Front(@)]
           ELSE self,
           "regretPoint")

\* mutant: coords is not emptied
closeMap_keepsCoords(self) ==
    Called([self EXCEPT !.isDrawing = FALSE,
                        !.polygon   = 0],
           "closeMap")

\* mutant: a polygon closed without vertices is removed from the svg
closeMap_dropsEmpty(self) ==
    Called([self EXCEPT !.isDrawing = FALSE,
                        !.svg       = IF self.coords = <<>> /\ self.polygon = Len(@)
                                      THEN Front(@) ELSE @,
                        !.polygon   = 0,
                        !.coords    = <<>>],
           "closeMap")

closeMap(self) ==
    Called([self EXCEPT !.isDrawing = FALSE,
                        !.polygon   = 0,
                        !.coords    = <<>>],
           "closeMap")

\* mutant: only the polygon in progress is removed from the svg
resetMaps_currentOnly(self) ==
    Called([self EXCEPT !.isDrawing = FALSE,
                        !.svg       = SubSeq(@, 1, Len(@) - 1),
                        !.polygon   = 0,
                        !.coords    = <<>>],
           "resetMaps")

\* mutant: isDrawing is not cleared
resetMaps_keepsDrawing(self) ==
    Called([self EXCEPT !.svg       = <<>>,
                        !.polygon   = 0,
                        !.coords    = <<>>],
           "resetMaps")

resetMaps(self) ==
    Called([self EXCEPT !.isDrawing = FALSE,
                        !.svg       = <<>>,
                        !.polygon   = 0,
                        !.coords    = <<>>],
           "resetMaps")

\* mutant: unshift() for push(), the point goes to the front
pushPoint_unshift(self, position) ==
    Called([self EXCEPT !.coords    = << <<position.x, position.y>> >> \o @,
                        !.isDrawing = TRUE],
           "push")

\* mutant: isDrawing is not set
pushPoint_noFlag(self, position) ==
    Called([self EXCEPT !.coords = Append(@, <<position.x, position.y>>)],
           "push")

\* this.coords.push([position.x, position.y]); this.isDrawing = true
pushPoint(self, position) ==
    Called([self EXCEPT !.coords    = Append(@, <<position.x, position.y>>),
                        !.isDrawing = TRUE],
           "push")

\* mutant: the close key is looked at before the regret key
clickBranch_closeFirst(self, event, position) ==
    IF event[options.closeKey] THEN closeMap(self)
    ELSE IF event[options.regretKey] THEN regretPoint(self)
    ELSE IF event[options.resetKey] THEN resetMaps(self)
    ELSE pushPoint(self, position)

\* the modifier branch of onClick
clickBranch(self, event, position) ==
    IF event[options.regretKey] THEN regretPoint(self)
    ELSE IF event[options.closeKey] THEN closeMap(self)
    ELSE IF event[options.resetKey] THEN resetMaps(self)
    ELSE pushPoint(self, position)

\* mutant: a polygon is injected on every click
onClick_alwaysInjects(self, event, position) ==
    clickBranch(injectPolygon([self EXCEPT !.calls = <<>>]), event, position)

onClick(self, event, position) ==
    LET entered == [self EXCEPT !.calls = <<>>]
        ensured == IF entered.polygon = 0 THEN injectPolygon(entered) ELSE entered
    IN  clickBranch(ensured, event, position)

\* mutant: the length of coords is not looked at
moveIgnored_flagOnly(self) == ~self.isDrawing

\* the early return of onMove
moveIgnored(self) == ~self.isDrawing \/ Len(self.coords) = 0

onMove(self, event, position) ==
    LET entered == [self EXCEPT !.calls = <<>>]
    IN  IF moveIgnored(entered) THEN entered
        ELSE renderNewPoint(entered, position.x, position.y)

-----------------------------------------------------------------------------
(* Events *)

Elements == DOMAIN widgets

Containers == { parentNode[e] : e \in Elements }

NoModifier == [ metaKey |-> FALSE, shiftKey |-> FALSE, altKey |-> FALSE ]

Modifiers == [ metaKey : BOOLEAN, shiftKey : BOOLEAN, altKey : BOOLEAN ]

Event(type, target, keys, point) ==
    [ type |-> type, target |-> target,
      metaKey |-> keys.metaKey, shiftKey |-> keys.shiftKey, altKey |-> keys.altKey,
      pageX |-> point[1], pageY |-> point[2] ]

ClickEventsAt(keys, points) ==
    { Event("click", c, k, p) : c \in Containers, k \in keys, p \in points }

MoveEventsAt(points) ==
    { Event("mousemove", c, NoModifier, p) : c \in Containers, p \in points }

Listening(event) == { e \in Elements : parentNode[e] = event.target }

Position(e, event) ==
    getMousePosition(event,
                     [left |-> rect[e][1], top |-> rect[e][2]],
                     [x |-> pageOffset[1], y |-> pageOffset[2]],
                     [clientLeft |-> docElement[1], clientTop |-> docElement[2]])

\* what the handler finds on entry
Session(self) ==
    [ isDrawing |-> self.isDrawing, coords |-> self.coords, polygon |-> self.polygon,
      shapes |-> Len(self.svg) ]

\* the listeners bound in initialize(): each widget on the container runs
\* its handler to completion; handled[e] is the widget as its handler leaves it
Deliver(event, handled) ==
    /\ widgets' = [ e \in Elements |->
                      IF e \in Listening(event) THEN handled[e] ELSE widgets[e] ]
    /\ pre' = [ e \in Elements |->
                  IF e \in Listening(event) THEN Session(widgets[e]) ELSE pre[e] ]
    /\ last' = event
    /\ UNCHANGED <<parentNode, rect, pageOffset, docElement, logCap, create>>

OnClick(event) ==
    /\ Deliver(event, [ e \in Listening(event) |->
                          onClick(widgets[e], event, Position(e, event)) ])
    /\ log' = IF Len(log) < logCap THEN Append(log, event) ELSE log

OnMove(event) ==
    /\ Deliver(event, [ e \in Listening(event) |->
                          onMove(widgets[e], event, Position(e, event)) ])
    /\ UNCHANGED log

-----------------------------------------------------------------------------
(* The state after create(selector) matched one element, wrapped *)

\* the elements of a set in document order
RECURSIVE InOrder(_)
InOrder(elements) ==
    IF elements = {} THEN <<>>
    ELSE LET first == CHOOSE e \in elements : \A o \in elements : e <= o
         IN  <<first>> \o InOrder(elements \ {first})

\* the create call after its loop has run over the elements
Created(elements) ==
    [ elements |-> InOrder(elements), i |-> 0, options |-> options,
      failing |-> {}, thrown |-> FALSE ]

InitWidgets(elements, geometry, cap) ==
    /\ create = Created(elements)
    /\ widgets = [ e \in elements |-> NewWidget ]
    /\ parentNode = [ e \in elements |-> e ]
    /\ rect = [ e \in elements |-> geometry.rect ]
    /\ docElement = geometry.root
    /\ pageOffset = geometry.scroll
    /\ pre = [ e \in elements |-> Session(NewWidget) ]
    /\ last = Event("none", 0, NoModifier, <<0, 0>>)
    /\ log = <<>>
    /\ logCap = cap

Init == InitWidgets({1}, Geometry, 0)

\* the clicks Next offers: within the bounds of the model
Offered(event) ==
    \A e \in Listening(event) :
        /\ widgets[e].polygon = 0 => Len(widgets[e].svg) < MaxShapes
        /\ \/ Len(widgets[e].coords) < MaxVertices
           \/ event.metaKey \/ event.shiftKey \/ event.altKey

Next ==
    \/ \E event \in ClickEventsAt({NoModifier}, ClickPoints) :
          Offered(event) /\ OnClick(event)
    \/ \E event \in ClickEventsAt(Modifiers \ {NoModifier}, ModifierClickPoints) :
          Offered(event) /\ OnClick(event)
    \/ \E event \in MoveEventsAt(MovePoints) : OnMove(event)

Spec == Init /\ [][Next]_vars

-----------------------------------------------------------------------------
(* The scenarios: an element at document offset (10,10), no scroll; the    *)
(* clicks are logged and drawn from the scenario's script, move events     *)
(* come in between at will.                                                *)

ScenarioGeometry ==
    [ rect |-> <<20, 20>>, root |-> <<0, 0>>, scroll |-> <<0, 0>> ]

Meta == [ NoModifier EXCEPT !.metaKey = TRUE ]

Shift == [ NoModifier EXCEPT !.shiftKey = TRUE ]

UndoScript ==
    << Event("click", 1, NoModifier, <<110, 60>>),
       Event("click", 1, Meta,       <<130, 80>>),
       Event("click", 1, NoModifier, <<130, 80>>) >>

CloseScript ==
    << Event("click", 1, NoModifier, <<10, 10>>),
       Event("click", 1, NoModifier, <<20, 10>>),
       Event("click", 1, NoModifier, <<20, 20>>),
       Event("click", 1, Shift,      <<20, 20>>) >>

Range(s) == { s[i] : i \in 1..Len(s) }

ScenarioNext(script) ==
    \/ \E event \in Range(script) : Len(log) < logCap /\ OnClick(event)
    \/ \E event \in MoveEventsAt({ <<e.pageX, e.pageY>> : e \in Range(script) }) :
          OnMove(event)

UndoInit == InitWidgets({1}, ScenarioGeometry, Len(UndoScript) + 1)

UndoNext == ScenarioNext(UndoScript)

UndoSpec == UndoInit /\ [][UndoNext]_vars

CloseInit == InitWidgets({1}, ScenarioGeometry, Len(CloseScript))

CloseNext == ScenarioNext(CloseScript)

CloseSpec == CloseInit /\ [][CloseNext]_vars

-----------------------------------------------------------------------------
(* The create call itself: querySelectorAll has matched CreateElements,    *)
(* which lie in one parent node or each in its own; the loop constructs    *)
(* the widgets from the last element to the first; the constructor throws  *)
(* for the elements of create.failing.  Events come once create returned.  *)

CreateElements == <<1, 2, 3>>

\* the wrapper injectWrapper puts around element e, and the parent node of
\* e in the document create() finds
WrapperOf(e) == e

ParentOf(e, shared) == IF shared THEN 10 ELSE 10 + e

\* new drawMaps(elements[i], options) for the element the loop is at: the
\* instance is constructed and initialize() wraps the element and binds the
\* listeners on its parent node; or initialize() throws before it binds
\* them, and the exception leaves the loop and the create function
CreateStep ==
    /\ create.i >= 1 /\ ~create.thrown
    /\ LET e == create.elements[create.i]
       IN  IF e \in create.failing
           THEN /\ create' = [create EXCEPT !.thrown = TRUE]
                /\ UNCHANGED <<widgets, parentNode, pre>>
           ELSE /\ create' = [create EXCEPT !.i = @ - 1]
                /\ widgets' = [ x \in DOMAIN widgets \cup {e} |->
                                  IF x = e THEN NewWidget ELSE widgets[x] ]
                /\ pre' = [ x \in DOMAIN pre \cup {e} |->
                              IF x = e THEN Session(NewWidget) ELSE pre[x] ]
                /\ parentNode' = IF create.options.wrapImages
                                 THEN [parentNode EXCEPT ![e] = WrapperOf(e)]
                                 ELSE parentNode
    /\ UNCHANGED <<rect, pageOffset, docElement, last, log, logCap>>

\* the create function has returned, or was left by an exception
CreateDone == create.i = 0 \/ create.thrown

CreateInit ==
    /\ widgets = [ e \in {} |-> NewWidget ]
    /\ pre = [ e \in {} |-> Session(NewWidget) ]
    /\ \E shared \in BOOLEAN :
          parentNode = [ k \in DOMAIN CreateElements |->
                           ParentOf(CreateElements[k], shared) ]
    /\ rect = [ k \in DOMAIN CreateElements |->
                  << ScenarioGeometry.rect[1] + 80 * k, ScenarioGeometry.rect[2] >> ]
    /\ docElement = ScenarioGeometry.root
    /\ pageOffset = ScenarioGeometry.scroll
    /\ last = Event("none", 0, NoModifier, <<0, 0>>)
    /\ log = <<>>
    /\ logCap = MaxClicks
    /\ \E wrap \in BOOLEAN, failing \in { {} } \cup { {e} : e \in Range(CreateElements) } :
          create = [ elements |-> CreateElements,
                     i        |-> Len(CreateElements),
                     options  |-> extend(defaults, [ wrapImages |-> wrap ]),
                     failing  |-> failing,
                     thrown   |-> FALSE ]

CreateNext ==
    \/ CreateStep
    \/ \E event \in ClickEventsAt({NoModifier}, ClickPoints) :
          CreateDone /\ Len(log) < logCap /\ OnClick(event)
    \/ \E event \in MoveEventsAt(MovePoints) : CreateDone /\ OnMove(event)

CreateSpec == CreateInit /\ [][CreateNext]_vars

-----------------------------------------------------------------------------
(* The page scrolled: the geometry is drawn from ScrollGeometries, the     *)
(* page scrolls between the events, plain clicks are logged.               *)

\* rect (half pixels) and root border (pixels) of the geometries Init draws
ScrollGeometries ==
    { [ rect |-> r, root |-> b, scroll |-> <<0, 0>> ] :
        r \in { <<20, 20>>, <<-6, 40>>, <<25, 19>> },
        b \in { <<0, 0>>, <<2, 1>> } }

\* (pageXOffset, pageYOffset) the page can be scrolled to
ScrollPositions == { <<0, 0>>, <<3, 5>>, <<0, 7>> }

\* the page scrolls: pageXOffset/pageYOffset change, and the viewport box of
\* every element shifts the other way by as much
Scroll(to) ==
    /\ to # pageOffset
    /\ pageOffset' = to
    /\ rect' = [ e \in DOMAIN rect |->
                   << rect[e][1] - 2 * (to[1] - pageOffset[1]),
                      rect[e][2] - 2 * (to[2] - pageOffset[2]) >> ]
    /\ last' = Event("scroll", 0, NoModifier, <<0, 0>>)
    /\ UNCHANGED <<widgets, parentNode, docElement, pre, log, logCap, create>>

ScrollInit == \E g \in ScrollGeometries : InitWidgets({1}, g, MaxClicks)

ScrollNext ==
    \/ \E event \in ClickEventsAt({NoModifier}, ClickPoints) :
          Len(log) < logCap /\ OnClick(event)
    \/ \E event \in MoveEventsAt(MovePoints) : OnMove(event)
    \/ \E to \in ScrollPositions : Scroll(to)

ScrollSpec == ScrollInit /\ [][ScrollNext]_vars

-----------------------------------------------------------------------------
(* The clicks counted: one widget, every click logged, at most MaxClicks   *)
(* clicks, each with no modifier or one of the three.                      *)

Alt == [ NoModifier EXCEPT !.altKey = TRUE ]

CountInit == InitWidgets({1}, Geometry, MaxClicks)

CountNext ==
    \/ \E event \in ClickEventsAt({NoModifier, Meta, Shift, Alt}, ModifierClickPoints) :
          Len(log) < logCap /\ OnClick(event)
    \/ \E event \in MoveEventsAt(MovePoints) : OnMove(event)

CountSpec == CountInit /\ [][CountNext]_vars

-----------------------------------------------------------------------------
(* Vocabulary of the claims *)

UndoHeld(event)     == event[options.regretKey]
FinalizeHeld(event) == event[options.closeKey]
ClearHeld(event)    == event[options.resetKey]

IsClick(event) == event.type = "click"
IsMove(event)  == event.type = "mousemove"

IsUndoClick(event)     == IsClick(event) /\ UndoHeld(event)
IsFinalizeClick(event) == IsClick(event) /\ ~UndoHeld(event) /\ FinalizeHeld(event)
IsClearClick(event)    ==
    IsClick(event) /\ ~UndoHeld(event) /\ ~FinalizeHeld(event) /\ ClearHeld(event)
IsPlainClick(event)    ==
    IsClick(event) /\ ~UndoHeld(event) /\ ~FinalizeHeld(event) /\ ~ClearHeld(event)

\* the widgets whose handler ran on the last event
Handling == IF last.type = "none" THEN {} ELSE Listening(last)

\* the four actions among the calls of a handler, in call order
ActionsOf(calls) ==
    SelectSeq(calls, LAMBDA c : c \in {"regretPoint", "closeMap", "resetMaps", "push"})

\* the point a pointer event maps to on element e
MappedPoint(e, event) == <<Position(e, event).x, Position(e, event).y>>

\* C1: every click applies exactly one of undo, finalize, clear-all and
\* add-vertex, chosen by the priority undo > finalize > clear-all > add: the
\* handler calls exactly one of the four, and the widget shows that one's
\* effect (add: one vertex more; undo: polygon kept, no vertex more;
\* finalize: polygon detached, shapes kept; clear-all: no shape left).
C1_OneActionByPriority ==
    \A e \in Handling :
        IsClick(last) =>
            LET w    == widgets[e]
                acts == ActionsOf(w.calls)
            IN  /\ Len(acts) = 1
                /\ (acts[1] = "regretPoint") = IsUndoClick(last)
                /\ (acts[1] = "closeMap")    = IsFinalizeClick(last)
                /\ (acts[1] = "resetMaps")   = IsClearClick(last)
                /\ (acts[1] = "push")        = IsPlainClick(last)
                /\ (Len(w.coords) = Len(pre[e].coords) + 1) = IsPlainClick(last)
                /\ (w.polygon # 0 /\ Len(w.coords) <= Len(pre[e].coords))
                       = IsUndoClick(last)
                /\ (w.polygon = 0 /\ w.svg # <<>>) = IsFinalizeClick(last)
                /\ (w.svg = <<>>) = IsClearClick(last)

\* a click with all three modifiers held removed a vertex
C1_Witness ==
    \E e \in Handling :
        /\ IsClick(last) /\ last.metaKey /\ last.shiftKey /\ last.altKey
        /\ pre[e].coords # <<>>
        /\ widgets[e].coords = Front(pre[e].coords)
        /\ widgets[e].isDrawing

\* C2: after a finalize click or a clear-all click the vertex list is empty
\* and the widget is not drawing, whatever the state before.
C2_ResetAfterFinalizeOrClear ==
    \A e \in Handling :
        (IsFinalizeClick(last) \/ IsClearClick(last)) =>
            /\ widgets[e].coords = <<>>
            /\ widgets[e].isDrawing = FALSE

\* a finalize click on a drawing with vertices
C2_Witness ==
    \E e \in Handling :
        /\ IsFinalizeClick(last)
        /\ pre[e].isDrawing /\ Len(pre[e].coords) >= 2
        /\ widgets[e].coords = <<>> /\ ~widgets[e].isDrawing

\* C3: a plain click appends the mapped point at the end of the vertex list
\* and sets isDrawing; while only plain clicks have been made since
\* construction, the vertex list is the list of their mapped points in click
\* order, duplicates kept.  (Under CloseSpec no click is made once the log
\* is full, so the log is the whole click history.)
C3_PlainClickAppends ==
    \A e \in Elements :
        /\ (e \in Handling /\ IsPlainClick(last)) =>
               /\ widgets[e].coords = Append(pre[e].coords, MappedPoint(e, last))
               /\ widgets[e].isDrawing
        /\ (\A i \in 1..Len(log) : IsPlainClick(log[i]) /\ e \in Listening(log[i])) =>
               widgets[e].coords = [ i \in 1..Len(log) |-> MappedPoint(e, log[i]) ]

\* three plain clicks, the first two on the same spot
C3_Witness ==
    \E e \in Handling :
        /\ Len(log) = 3
        /\ \A i \in 1..3 : IsPlainClick(log[i])
        /\ log[1] = log[2] /\ log[3] # log[1]
        /\ last = log[3]
        /\ Len(widgets[e].coords) = 3
        /\ widgets[e].coords[1] = widgets[e].coords[2]

\* C4: an undo click on an empty vertex list leaves the list empty and
\* isDrawing as it was.
C4_UndoOnEmpty ==
    \A e \in Handling :
        (IsUndoClick(last) /\ pre[e].coords = <<>>) =>
            /\ widgets[e].coords = <<>>
            /\ widgets[e].isDrawing = pre[e].isDrawing

\* an undo click on a drawing whose vertices had all been undone
C4_Witness ==
    \E e \in Handling :
        /\ IsUndoClick(last)
        /\ pre[e].coords = <<>> /\ pre[e].isDrawing
        /\ widgets[e].coords = <<>> /\ widgets[e].isDrawing

\* C5: a plain click followed immediately by an undo click leaves the vertex
\* list as it was before the plain click (pre holds the state the plain
\* click found).
C5_AddUndoRoundTrip ==
    [][ \A e \in Elements :
          (IsPlainClick(last) /\ e \in Listening(last)
             /\ IsUndoClick(last') /\ e \in Listening(last'))
          => widgets'[e].coords = pre[e].coords ]_vars

\* the clicks were plain, plain, undo, and the first vertex is what is left
C5_Witness ==
    \E e \in Handling :
        /\ Len(log) = 3
        /\ IsPlainClick(log[1]) /\ IsPlainClick(log[2]) /\ IsUndoClick(log[3])
        /\ last = log[3]
        /\ widgets[e].coords = << MappedPoint(e, log[1]) >>

\* C6: after a clear-all click the svg holds no shape.
C6_ClearAllErasesEverything ==
    \A e \in Handling :
        IsClearClick(last) => widgets[e].svg = <<>>

\* a clear-all click that found a finalized polygon and no polygon in
\* progress, and so injected one itself
C6_Witness ==
    \E e \in Handling :
        /\ IsClearClick(last)
        /\ pre[e].polygon = 0 /\ pre[e].shapes >= 1
        /\ widgets[e].calls = <<"injectPolygon", "resetMaps">>
        /\ widgets[e].svg = <<>>

\* C7 as amended: on an element at offset (10,10) with no scroll, a plain
\* click at (110,60) gives vertices [(100,50)]; a following click at (130,80)
\* with the undo modifier calls regretPoint and leaves []; a following plain
\* click at (130,80) gives [(120,70)].
C7_UndoScenario ==
    \A e \in Elements :
        /\ log = SubSeq(UndoScript, 1, 1) => widgets[e].coords = << <<100, 50>> >>
        /\ log = SubSeq(UndoScript, 1, 2) =>
               /\ widgets[e].coords = <<>>
               /\ last = UndoScript[2] => ActionsOf(widgets[e].calls) = <<"regretPoint">>
        /\ log = UndoScript => widgets[e].coords = << <<120, 70>> >>

C7_Witness ==
    \E e \in Handling :
        /\ log = UndoScript
        /\ last = UndoScript[3]
        /\ widgets[e].coords = << <<120, 70>> >>

\* C7 as stated: the undo click leaves [(100,50)], and the last click gives
\* [(100,50),(120,70)].
C7_AsStated ==
    \A e \in Elements :
        /\ log = SubSeq(UndoScript, 1, 1) => widgets[e].coords = << <<100, 50>> >>
        /\ log = SubSeq(UndoScript, 1, 2) => widgets[e].coords = << <<100, 50>> >>
        /\ log = UndoScript => widgets[e].coords = << <<100, 50>>, <<120, 70>> >>

\* C8 as stated: after plain clicks adding (0,0),(10,0),(10,10) and a finalize
\* click, with move events in between at will, the vertex list is empty, the
\* widget is not drawing, and the svg holds exactly one shape, finalized,
\* whose points are exactly (0,0),(10,0),(10,10).
C8_CloseScenario ==
    \A e \in Elements :
        log = CloseScript =>
            /\ widgets[e].coords = <<>>
            /\ widgets[e].isDrawing = FALSE
            /\ widgets[e].polygon = 0
            /\ Len(widgets[e].svg) = 1
            /\ ShapePoints(widgets[e].svg[1]) = << <<0, 0>>, <<10, 0>>, <<10, 10>> >>

\* C9: a move event that finds the widget not drawing, or its vertex list
\* empty, calls nothing and leaves the svg as it was.
C9_MoveIgnored ==
    [][ \A e \in Elements :
          (IsMove(last') /\ e \in Listening(last')
             /\ (~widgets[e].isDrawing \/ widgets[e].coords = <<>>))
          => /\ widgets'[e].calls = <<>>
             /\ widgets'[e].svg = widgets[e].svg ]_vars

\* a move event on a drawing whose vertices had all been undone
C9_Witness ==
    \E e \in Handling :
        /\ IsMove(last)
        /\ pre[e].isDrawing /\ pre[e].coords = <<>>
        /\ widgets[e].calls = <<>>
        /\ widgets[e].svg # <<>>

\* C10: a move event that finds the widget drawing with a non-empty vertex
\* list sets the points of the polygon in progress to the vertices in order
\* followed by the mapped pointer position, and leaves coords and isDrawing
\* alone; no move event ever changes coords.
C10_MovePreview ==
    [][ \A e \in Elements :
          (IsMove(last') /\ e \in Listening(last')) =>
              /\ widgets'[e].coords = widgets[e].coords
              /\ widgets'[e].isDrawing = widgets[e].isDrawing
              /\ (widgets[e].isDrawing /\ widgets[e].coords # <<>>) =>
                    /\ widgets[e].polygon \in 1..Len(widgets[e].svg)
                    /\ widgets'[e].polygon = widgets[e].polygon
                    /\ ShapePoints(widgets'[e].svg[widgets[e].polygon])
                         = Append(widgets[e].coords, MappedPoint(e, last')) ]_vars

\* a move event redrew a polygon of two vertices
C10_Witness ==
    \E e \in Handling :
        /\ IsMove(last)
        /\ widgets[e].isDrawing /\ Len(widgets[e].coords) = 2
        /\ widgets[e].calls = <<"renderNewPoint">>
        /\ ShapePoints(widgets[e].svg[widgets[e].polygon])
             = Append(widgets[e].coords, MappedPoint(e, last))

\* C11: isDrawing goes from true to false only in the step of a finalize
\* click or a clear-all click handled by the widget.
C11_DeactivatedOnlyByFinalizeOrClear ==
    [][ \A e \in Elements :
          (widgets[e].isDrawing /\ ~widgets'[e].isDrawing)
          => /\ e \in Listening(last')
             /\ IsFinalizeClick(last') \/ IsClearClick(last') ]_vars

\* an undo click removed the only vertex and the widget is still drawing
C11_Witness ==
    \E e \in Handling :
        /\ IsUndoClick(last)
        /\ pre[e].isDrawing /\ Len(pre[e].coords) = 1
        /\ widgets[e].coords = <<>>
        /\ widgets[e].isDrawing

\* the polygon in progress attached or not, as a count
Attached(polygon) == IF polygon = 0 THEN 0 ELSE 1

\* C15: a click injects a polygon exactly when it finds none attached, and
\* does so before anything else; a click that is neither finalize nor
\* clear-all leaves a polygon attached, so no second polygon is injected
\* before the next finalize or clear-all; a move event injects none.
C15_LazyInjection ==
    \A e \in Handling :
        LET w        == widgets[e]
            injected == { i \in 1..Len(w.calls) : w.calls[i] = "injectPolygon" }
        IN  /\ IsClick(last) =>
                /\ injected = (IF pre[e].polygon = 0 THEN {1} ELSE {})
                /\ ~IsClearClick(last) =>
                       Len(w.svg) = pre[e].shapes + Cardinality(injected)
                /\ ~(IsFinalizeClick(last) \/ IsClearClick(last)) => w.polygon # 0
            /\ IsMove(last) =>
                /\ injected = {}
                /\ Len(w.svg) = pre[e].shapes

\* an undo click on a widget with a finalized polygon and none in progress
\* injected a polygon
C15_Witness ==
    \E e \in Handling :
        /\ IsUndoClick(last)
        /\ pre[e].polygon = 0 /\ pre[e].shapes = 1
        /\ widgets[e].calls = <<"injectPolygon", "regretPoint">>
        /\ Len(widgets[e].svg) = 2 /\ widgets[e].polygon = 2

\* s is the beginning of t
IsPrefix(s, t) == Len(s) <= Len(t) /\ SubSeq(t, 1, Len(s)) = s

\* C16 as stated: after a plain click, and after an undo click that removed
\* a vertex, the polygon in progress shows the current vertices (at most
\* followed by one preview point).
C16_RedrawnOnMutation ==
    \A e \in Handling :
        (IsPlainClick(last) \/ (IsUndoClick(last) /\ pre[e].coords # <<>>)) =>
            LET w     == widgets[e]
                shown == ShapePoints(w.svg[w.polygon])
            IN  /\ w.polygon \in 1..Len(w.svg)
                /\ IsPrefix(w.coords, shown)
                /\ Len(shown) <= Len(w.coords) + 1

\* C17: a widget with vertices is drawing.
C17_VerticesImplyDrawing ==
    \A e \in Elements : widgets[e].coords # <<>> => widgets[e].isDrawing

\* the converse fails: an undo click emptied the list of a drawing widget
C17_Witness ==
    \E e \in Handling :
        /\ IsUndoClick(last)
        /\ pre[e].coords # <<>>
        /\ widgets[e].coords = <<>>
        /\ widgets[e].isDrawing

\* C18: a drawing widget has a polygon attached that is a child of its svg,
\* and a move event that renders writes to that child.
C18_DrawingHasPolygon ==
    \A e \in Elements :
        LET w == widgets[e]
        IN  /\ w.isDrawing => w.polygon \in 1..Len(w.svg)
            /\ "renderNewPoint" \in { w.calls[i] : i \in 1..Len(w.calls) } =>
                   /\ w.polygon \in 1..Len(w.svg)
                   /\ w.svg[w.polygon].hasPoints

\* a move event rendered into the second polygon of the svg
C18_Witness ==
    \E e \in Handling :
        /\ IsMove(last)
        /\ widgets[e].calls = <<"renderNewPoint">>
        /\ widgets[e].isDrawing
        /\ widgets[e].polygon = 2 /\ Len(widgets[e].svg) = 2
        /\ widgets[e].svg[2].hasPoints

\* C20: a polygon that is no longer the one in progress keeps its points
\* through every step but a clear-all click, which removes it.
C20_FinalizedFrozen ==
    [][ \A e \in Elements :
          \A k \in 1..Len(widgets[e].svg) :
              k # widgets[e].polygon =>
                  IF e \in Listening(last') /\ IsClearClick(last')
                  THEN widgets'[e].svg = <<>>
                  ELSE /\ k <= Len(widgets'[e].svg)
                       /\ widgets'[e].svg[k] = widgets[e].svg[k]
                       /\ k # widgets'[e].polygon ]_vars

\* a move event redrew the polygon in progress beside a finalized polygon
\* that shows other points
C20_Witness ==
    \E e \in Handling :
        /\ IsMove(last)
        /\ widgets[e].calls = <<"renderNewPoint">>
        /\ widgets[e].polygon = 2
        /\ widgets[e].svg[1].hasPoints
        /\ widgets[e].svg[1] # widgets[e].svg[2]

\* the finalize clicks of a click log since its last clear-all click
RECURSIVE FinalizesSinceClear(_)
FinalizesSinceClear(clicks) ==
    IF clicks = <<>> THEN 0
    ELSE LET click == clicks[Len(clicks)]
         IN  IF IsClearClick(click) THEN 0
             ELSE FinalizesSinceClear(Front(clicks))
                    + (IF IsFinalizeClick(click) THEN 1 ELSE 0)

\* C19: the svg holds as many polygons as finalize clicks were made since
\* the last clear-all click (or since construction), plus the polygon in
\* progress if one is attached; a finalize click, also one that finds no
\* polygon attached and no vertex, leaves one finalized polygon more.
C19_ShapeCount ==
    \A e \in Elements :
        LET w == widgets[e]
        IN  /\ Len(w.svg) = FinalizesSinceClear(log) + Attached(w.polygon)
            /\ (e \in Handling /\ IsFinalizeClick(last)) =>
                   /\ w.polygon = 0
                   /\ Len(w.svg) = pre[e].shapes - Attached(pre[e].polygon) + 1

\* the second finalize click in a row found no polygon attached and no
\* vertex, and left a second polygon
C19_Witness ==
    \E e \in Handling :
        /\ Len(log) >= 2
        /\ IsFinalizeClick(log[Len(log)]) /\ IsFinalizeClick(log[Len(log) - 1])
        /\ last = log[Len(log)]
        /\ pre[e].polygon = 0 /\ pre[e].coords = <<>> /\ ~pre[e].isDrawing
        /\ Len(widgets[e].svg) = 2

\* the pointer events of the page positions Next draws from
PointerEvents ==
    ClickEventsAt({NoModifier}, ClickPoints) \cup MoveEventsAt(MovePoints)

\* offsetLeft and offsetTop as the claim gives them, in half pixels: the
\* viewport box plus the page scroll minus the root's border
OffsetOf(e) ==
    << rect[e][1] + 2 * pageOffset[1] - 2 * docElement[1],
       rect[e][2] + 2 * pageOffset[2] - 2 * docElement[2] >>

\* n is d/2 rounded to the nearest integer, halves up
IsRounded(n, d) == 2 * n - 1 <= d /\ d <= 2 * n

\* C14: the mapped point is (pageX - offsetLeft, pageY - offsetTop), rounded,
\* and exactly that when the offset is a whole number of pixels; a scroll of
\* the page, the element's viewport box shifting with it, changes the mapped
\* point of no page position.
C14_MapperScrollInvariant ==
    /\ [] \A e \in Elements : \A event \in PointerEvents :
            LET p == MappedPoint(e, event)
                o == OffsetOf(e)
            IN  /\ IsRounded(p[1], 2 * event.pageX - o[1])
                /\ IsRounded(p[2], 2 * event.pageY - o[2])
                /\ o[1] % 2 = 0 => 2 * p[1] = 2 * event.pageX - o[1]
                /\ o[2] % 2 = 0 => 2 * p[2] = 2 * event.pageY - o[2]
    /\ [][ last'.type = "scroll" =>
             \A e \in Elements : \A event \in PointerEvents :
                 MappedPoint(e, event)' = MappedPoint(e, event) ]_vars

\* the page was scrolled after a plain click, and the click's page position
\* still maps to the vertex the click stored
C14_Witness ==
    \E e \in Elements :
        /\ last.type = "scroll"
        /\ pageOffset # <<0, 0>>
        /\ Len(log) = 1
        /\ widgets[e].coords = << MappedPoint(e, log[1]) >>

\* the session and the drawing surface of a widget
Owned(self) == [ session |-> Session(self), svg |-> self.svg ]

\* the widgets of one create call, once it returned
Instances == IF create.i = 0 THEN Elements ELSE {}

\* C12: of two widgets of one create call, a click or a mouse move at the
\* target of one leaves the session and the shapes of the other unchanged,
\* with wrapImages true or false, the elements sharing a parent node or not.
C12_WidgetsIndependent ==
    [][ \A a, b \in Instances :
            ( /\ a # b
              /\ IsClick(last') \/ IsMove(last')
              /\ last'.target = parentNode[a] )
            => Owned(widgets'[b]) = Owned(widgets[b]) ]_vars

\* the elements create matched for which the constructor does not throw
Sound == { e \in Range(create.elements) : e \notin create.failing }

\* the widget of e exists and its click and mousemove listeners are bound
Initialized(e) ==
    /\ e \in Elements
    /\ \E event \in ClickEventsAt({NoModifier}, ClickPoints) : e \in Listening(event)
    /\ \E event \in MoveEventsAt(MovePoints) : e \in Listening(event)

\* C13: when the constructor throws for one of the matched elements, every
\* other matched element has an initialized widget once create is over,
\* wherever the failing element is in the list.
C13_OthersInitialized ==
    CreateDone => \A e \in Sound : Initialized(e)

====
